---- MODULE Spec2Model ----
(***************************************************************************)
(* A model of the X-Ray recorder: the per-thread context slot, the scope   *)
(* handles (OpenSegment, OpenSubsegment, Current), the documents they own  *)
(* and the datagrams handed to the daemon socket.                          *)
(***************************************************************************)
EXTENDS Integers, Sequences, FiniteSets, TLC

(***************************************************************************)
(* Bounds of the model.                                                    *)
(***************************************************************************)
NumThreads == 2
MaxScopes == 2
NumSegIds == 2
NumTraceIds == 2

Threads == 1..NumThreads

(***************************************************************************)
(* Option<T>: None is the empty sequence, Some(x) a one-element sequence.  *)
(***************************************************************************)
None == <<>>
Some(x) == <<x>>

(***************************************************************************)
(* Result<T, E>, the error value left out.                                 *)
(***************************************************************************)
Err == [ok |-> FALSE]
Ok(x) == [ok |-> TRUE, value |-> x]

(***************************************************************************)
(* Identifiers.  A generated SegmentId holds 8 random bytes and a          *)
(* generated TraceId the epoch seconds and 12 random bytes; the random     *)
(* bytes are drawn from 1..NumSegIds and 1..NumTraceIds.  The Rendered     *)
(* variants hold a text (a sequence of characters).  The recorder reads    *)
(* the clock as the one instant Now: none of its steps compares times.     *)
(* (Now and Later are the two instants of tests::segments_serialize.)      *)
(***************************************************************************)
\* the concatenation of a sequence of sequences
RECURSIVE Concat(_)
Concat(seqs) ==
  IF seqs = <<>> THEN <<>>
  ELSE IF Len(seqs) = 1 THEN seqs[1]
  ELSE LET half == Len(seqs) \div 2
       IN Concat(SubSeq(seqs, 1, half)) \o Concat(SubSeq(seqs, half + 1, Len(seqs)))

Min(a, b) == IF a < b THEN a ELSE b

\* The random bytes are only ever compared for equality, so the draws are taken
\* up to renaming: the k-th draw of a run is one of the values 1..k.
Draws(n, k) == 1..Min(n, k)

SegmentIdNew(bytes) == [variant |-> "New", bytes |-> bytes]
SegmentIdRendered(value) == [variant |-> "Rendered", value |-> value]
TraceIdNew(seconds, bytes) == [variant |-> "New", seconds |-> seconds, bytes |-> bytes]
TraceIdRendered(value) == [variant |-> "Rendered", value |-> value]

\* a u64 is written as its four 16-bit limbs, the most significant first
LimbBase == 65536
U64FromNat(n) == <<0, 0, n \div LimbBase, n % LimbBase>>

\* the lengths of the random byte arrays
SegmentIdLen == 8
TraceIdLen == 12

\* the byte array of the n-th draw: the draws differ in their last byte
RandomBytes(len, n) == [i \in 1..len |-> IF i = len THEN n ELSE 0]

\* SegmentId::new() and TraceId::new() for the n-th draw
SegmentIdDrawn(n) == SegmentIdNew(RandomBytes(SegmentIdLen, n))
TraceIdDrawn(seconds, n) == TraceIdNew(U64FromNat(seconds.whole), RandomBytes(TraceIdLen, n))

\* Seconds: fractional epoch seconds, the whole part and the decimal digits after
\* the point
Now == [whole |-> 1478293361, frac |-> <<"2", "7", "1">>]
Later == [whole |-> 1478293361, frac |-> <<"4", "4", "9">>]

(***************************************************************************)
(* The trace header parser.  A text is a sequence of one-character         *)
(* strings.                                                                *)
(***************************************************************************)
StrRoot == <<"R", "o", "o", "t">>
StrParent == <<"P", "a", "r", "e", "n", "t">>
StrSampled == <<"S", "a", "m", "p", "l", "e", "d">>
StrSelf == <<"S", "e", "l", "f">>

SamplingDecisionDefault == "Unknown"

HeaderDefault ==
  [trace_id |-> <<>>, parent_id |-> None,
   sampling_decision |-> SamplingDecisionDefault, additional_data |-> None]

\* str::find: the 1-based position of the first ch in line, 0 when there is none
Find(line, ch) ==
  IF \E i \in 1..Len(line) : line[i] = ch
  THEN CHOOSE i \in 1..Len(line) : line[i] = ch /\ \A j \in 1..(i - 1) : line[j] # ch
  ELSE 0

\* str::split: the pieces of s between the occurrences of sep (always at least one piece)
RECURSIVE Split(_, _)
Split(s, sep) ==
  LET pos == Find(s, sep)
  IN IF pos = 0 THEN <<s>>
     ELSE <<SubSeq(s, 1, pos - 1)>> \o Split(SubSeq(s, pos + 1, Len(s)), sep)

\* a closure whose Parent arm starts from a default header
FoldLine_ParentResets(header, line) ==
  LET pos == Find(line, "=")
      key == SubSeq(line, 1, pos - 1)
      value == SubSeq(line, pos + 1, Len(line))
  IN IF pos = 0 THEN Err
     ELSE IF key = StrRoot THEN Ok([header EXCEPT !.trace_id = value])
     ELSE IF key = StrParent THEN Ok([HeaderDefault EXCEPT !.parent_id = Some(value)])
     ELSE IF key = StrSampled THEN
       Ok([header EXCEPT !.sampling_decision =
             IF value = <<"1">> THEN "Sampled"
             ELSE IF value = <<"0">> THEN "NotSampled"
             ELSE IF value = <<"?">> THEN "Requested"
             ELSE "Unknown"])
     ELSE IF key = StrSelf THEN
       Ok([header EXCEPT !.additional_data = Some([k \in {StrSelf} |-> value])])
     ELSE Ok(header)

\* a closure that maps only "1" and "0" of Sampled
FoldLine_RequestedUnknown(header, line) ==
  LET pos == Find(line, "=")
      key == SubSeq(line, 1, pos - 1)
      value == SubSeq(line, pos + 1, Len(line))
  IN IF pos = 0 THEN Err
     ELSE IF key = StrRoot THEN Ok([header EXCEPT !.trace_id = value])
     ELSE IF key = StrParent THEN Ok([header EXCEPT !.parent_id = Some(value)])
     ELSE IF key = StrSampled THEN
       Ok([header EXCEPT !.sampling_decision =
             IF value = <<"1">> THEN "Sampled"
             ELSE IF value = <<"0">> THEN "NotSampled"
             ELSE "Unknown"])
     ELSE IF key = StrSelf THEN
       Ok([header EXCEPT !.additional_data = Some([k \in {StrSelf} |-> value])])
     ELSE Ok(header)

\* a closure that keeps a Parent only once the Root was seen
FoldLine_ParentAfterRoot(header, line) ==
  LET pos == Find(line, "=")
      key == SubSeq(line, 1, pos - 1)
      value == SubSeq(line, pos + 1, Len(line))
  IN IF pos = 0 THEN Err
     ELSE IF key = StrRoot THEN Ok([header EXCEPT !.trace_id = value])
     ELSE IF key = StrParent THEN
       Ok(IF header.trace_id = <<>> THEN header ELSE [header EXCEPT !.parent_id = Some(value)])
     ELSE IF key = StrSampled THEN
       Ok([header EXCEPT !.sampling_decision =
             IF value = <<"1">> THEN "Sampled"
             ELSE IF value = <<"0">> THEN "NotSampled"
             ELSE IF value = <<"?">> THEN "Requested"
             ELSE "Unknown"])
     ELSE IF key = StrSelf THEN
       Ok([header EXCEPT !.additional_data = Some([k \in {StrSelf} |-> value])])
     ELSE Ok(header)

\* the closure of try_fold: one key=value line applied to the header so far
FoldLine(header, line) ==
  LET pos == Find(line, "=")
      key == SubSeq(line, 1, pos - 1)
      value == SubSeq(line, pos + 1, Len(line))
  IN IF pos = 0 THEN Err
     ELSE IF key = StrRoot THEN Ok([header EXCEPT !.trace_id = value])
     ELSE IF key = StrParent THEN Ok([header EXCEPT !.parent_id = Some(value)])
     ELSE IF key = StrSampled THEN
       Ok([header EXCEPT !.sampling_decision =
             IF value = <<"1">> THEN "Sampled"
             ELSE IF value = <<"0">> THEN "NotSampled"
             ELSE IF value = <<"?">> THEN "Requested"
             ELSE "Unknown"])
     ELSE IF key = StrSelf THEN
       Ok([header EXCEPT !.additional_data = Some([k \in {StrSelf} |-> value])])
     ELSE Ok(header)

\* a fold that skips the lines its closure fails on
RECURSIVE TryFold_SkipInvalid(_, _)
TryFold_SkipInvalid(header, lines) ==
  IF lines = <<>> THEN Ok(header)
  ELSE LET next == FoldLine(header, Head(lines))
       IN IF next = Err THEN TryFold_SkipInvalid(header, Tail(lines))
          ELSE TryFold_SkipInvalid(next.value, Tail(lines))

RECURSIVE TryFold(_, _)
TryFold(header, lines) ==
  IF lines = <<>> THEN Ok(header)
  ELSE LET next == FoldLine(header, Head(lines))
       IN IF next = Err THEN Err ELSE TryFold(next.value, Tail(lines))

\* impl FromStr for Header: Err or Ok(the parsed header)
from_str(s) == TryFold(HeaderDefault, Split(s, ";"))

(***************************************************************************)
(* The header texts handed to the parser.  A text is put together from     *)
(* segments: a key=value segment is its key, "=", its value; a bare        *)
(* segment is a text without "=".                                          *)
(***************************************************************************)
MaxSegments == 3

KeyValue(key, value) == [kv |-> TRUE, key |-> key, value |-> value]
Bare(text) == [kv |-> FALSE, text |-> text]

SegmentText(seg) == IF seg.kv THEN seg.key \o <<"=">> \o seg.value ELSE seg.text

RECURSIVE HeaderText(_)
HeaderText(segments) ==
  IF Len(segments) = 1 THEN SegmentText(segments[1])
  ELSE SegmentText(segments[1]) \o <<";">> \o HeaderText(Tail(segments))

HeaderSegments ==
  {KeyValue(StrRoot, <<"a">>), KeyValue(StrRoot, <<"b", "=", "c">>),
   KeyValue(StrParent, <<"p">>),
   KeyValue(StrSampled, <<"1">>), KeyValue(StrSampled, <<"0">>),
   KeyValue(StrSampled, <<"?">>), KeyValue(StrSampled, <<"x">>),
   KeyValue(StrSelf, <<"s">>), KeyValue(<<"k">>, <<"v">>), KeyValue(<<"j">>, <<"w">>),
   Bare(<<>>), Bare(<<"x">>)}

(***************************************************************************)
(* The values the host's _X_AMZN_TRACE_ID setting takes in the model.      *)
(***************************************************************************)
HdrFull ==
  <<"R", "o", "o", "t", "=", "a", ";", "P", "a", "r", "e", "n", "t", "=", "b", ";",
    "S", "a", "m", "p", "l", "e", "d", "=", "1">>
HdrNoParent == <<"R", "o", "o", "t", "=", "a">>
HdrGarbage == <<"R", "o", "o", "t", "=", "a", ";", "x">>
HdrNotSampled ==
  <<"R", "o", "o", "t", "=", "a", ";", "S", "a", "m", "p", "l", "e", "d", "=", "0">>
HdrNoRoot == <<"P", "a", "r", "e", "n", "t", "=", "b">>
EnvValues ==
  {None, Some(HdrFull), Some(HdrNoParent), Some(HdrGarbage), Some(HdrNotSampled),
   Some(HdrNoRoot)}

\* the Header the recorder reads, holding the texts of the parsed header as
\* received identifiers: the text of Root (empty when the header has no Root),
\* the text of Parent if any, and the sampling decision
Header(value) ==
  [trace_id |-> TraceIdRendered(value.trace_id),
   parent_id |-> IF value.parent_id = None THEN None
                 ELSE Some(SegmentIdRendered(value.parent_id[1])),
   sampling_decision |-> value.sampling_decision]

\* lambda::header: var(..).ok().and_then(|value| value.parse::<Header>().ok()),
\* the parsed texts carried as Rendered identifiers
header(env) ==
  IF env = None THEN None
  ELSE LET parsed == from_str(env[1])
       IN IF parsed = Err THEN None ELSE Some(Header(parsed.value))

(***************************************************************************)
(* Documents.                                                              *)
(***************************************************************************)
MaxNameLen == 200

\* the bytes that continue a multi-byte character: the second byte of U+00E9 (C3 A9)
\* and the second and third byte of U+20AC (E2 82 AC); a byte that is not ASCII is
\* named by its two hex digits
ContinuationBytes == {"A9", "82", "AC"}

\* str::is_char_boundary: index bytes into text is not inside a character
IsCharBoundary(text, index) ==
  IF index = 0 \/ index = Len(text) THEN TRUE
  ELSE IF index > Len(text) THEN FALSE
  ELSE text[index + 1] \notin ContinuationBytes

\* text[..index]: the first index bytes; Err stands for the panic of a slice that
\* does not end on a character boundary
SliceTo(text, index) ==
  IF IsCharBoundary(text, index) THEN Ok(SubSeq(text, 1, index)) ELSE Err

\* valid_name of begin: the name, or the first MaxNameLen bytes of a name that has
\* more bytes; Err when the slice panics
ValidName(name) == IF Len(name) > MaxNameLen THEN SliceTo(name, MaxNameLen) ELSE Ok(name)

\* env!("CARGO_PKG_VERSION"): the version of the crate, a text fixed by the build
CargoPkgVersion == <<"0", ".", "1", ".", "0">>

\* Segment::begin, when valid_name does not panic
SegmentBegin(name, id, parent_id, trace_id, time) ==
  [type |-> "segment", name |-> ValidName(name).value, id |-> id, parent_id |-> parent_id,
   trace_id |-> trace_id, start_time |-> time, end_time |-> None, in_progress |-> TRUE,
   fault |-> FALSE, error |-> FALSE, throttle |-> FALSE,
   aws |-> Some([xray |-> Some([sdk_version |-> Some(CargoPkgVersion)])])]

\* Subsegment::begin, when valid_name does not panic
SubsegmentBegin(name, id, parent_id, trace_id, time) ==
  [type |-> "subsegment", name |-> ValidName(name).value, id |-> id, parent_id |-> parent_id,
   trace_id |-> Some(trace_id), start_time |-> time, end_time |-> None,
   in_progress |-> TRUE, fault |-> FALSE, error |-> FALSE, throttled |-> FALSE,
   namespace |-> None, http |-> None, aws |-> None]

\* the names the scopes of the model are opened with
Names == {<<"a">>}

\* an end that only assigns end_time
end_KeepsInProgress(doc, time) == [doc EXCEPT !.end_time = Some(time)]

\* Segment::end and Subsegment::end
end(doc, time) == [doc EXCEPT !.end_time = Some(time), !.in_progress = FALSE]

(***************************************************************************)
(* The names given to begin.  A name is given as its characters, each      *)
(* character being the sequence of its UTF-8 bytes; begin sees the bytes.  *)
(***************************************************************************)
CharX == <<"X">>
CharEAcute == <<"C3", "A9">>
CharEuro == <<"E2", "82", "AC">>

Repeat(char, n) == [i \in 1..n |-> char]

\* the bytes of a String with these characters
Utf8(chars) == Concat(chars)

GivenNames ==
  {<<<<"s">>, <<"h">>, <<"o">>, <<"r">>, <<"t">>>>,
   Repeat(CharX, MaxNameLen), Repeat(CharX, MaxNameLen + 1),
   Repeat(CharEAcute, 100), Repeat(CharEAcute, 101),
   Repeat(CharX, MaxNameLen) \o <<CharEAcute>>,
   Repeat(CharX, MaxNameLen - 1) \o <<CharEAcute>>,
   Repeat(CharX, MaxNameLen - 1) \o <<CharEuro>>,
   Repeat(CharX, MaxNameLen - 2) \o <<CharEuro>>,
   Repeat(CharX, MaxNameLen - 3) \o <<CharEuro>>}

(***************************************************************************)
(* Serialization: the bytes of a document.  A text is a sequence of bytes, *)
(* each written as a one-character string.                                 *)
(***************************************************************************)
HexDigits ==
  <<"0", "1", "2", "3", "4", "5", "6", "7", "8", "9", "a", "b", "c", "d", "e", "f">>

\* {:02x} of one byte
LowerHexByte(byte) == <<HexDigits[(byte \div 16) + 1], HexDigits[(byte % 16) + 1]>>

\* fmt::LowerHex for Bytes: {:02x} of every byte, in order
RECURSIVE LowerHex(_)
LowerHex(bytes) ==
  IF bytes = <<>> THEN <<>> ELSE LowerHexByte(Head(bytes)) \o LowerHex(Tail(bytes))

\* {:x} of a number
RECURSIVE HexOf(_)
HexOf(n) ==
  IF n < 16 THEN <<HexDigits[n + 1]>> ELSE HexOf(n \div 16) \o <<HexDigits[(n % 16) + 1]>>

\* {:0width} padding: zeros in front of a text shorter than width
RECURSIVE ZeroPad(_, _)
ZeroPad(text, width) == IF Len(text) >= width THEN text ELSE ZeroPad(<<"0">> \o text, width)

\* the text without its leading zeros, down to one digit
RECURSIVE StripZeros(_)
StripZeros(text) ==
  IF Len(text) > 1 /\ Head(text) = "0" THEN StripZeros(Tail(text)) ELSE text

\* {:x} of a u64
HexOfU64(limbs) ==
  StripZeros(Concat([i \in DOMAIN limbs |-> ZeroPad(HexOf(limbs[i]), 4)]))

\* Display for SegmentId
DisplaySegmentId(id) == IF id.variant = "New" THEN LowerHex(id.bytes) ELSE id.value

\* Display for TraceId: "1-{:08x}-{:x}"
DisplayTraceId(id) ==
  IF id.variant = "New"
  THEN <<"1", "-">> \o ZeroPad(HexOfU64(id.seconds), 8) \o <<"-">> \o LowerHex(id.bytes)
  ELSE id.value

\* the decimal digits of a number
RECURSIVE DecimalOf(_)
DecimalOf(n) ==
  IF n < 10 THEN <<HexDigits[n + 1]>> ELSE DecimalOf(n \div 10) \o <<HexDigits[(n % 10) + 1]>>

\* serialize_f64 of a Seconds value: the whole part, the point, the decimals
SerializeF64(seconds) ==
  DecimalOf(seconds.whole) \o <<".">> \o (IF seconds.frac = <<>> THEN <<"0">> ELSE seconds.frac)

\* the JSON escape of one byte
EscapedByte(byte) ==
  CASE byte = "\"" -> <<"\\", "\"">>
    [] byte = "\\" -> <<"\\", "\\">>
    [] byte = "\n" -> <<"\\", "n">>
    [] OTHER -> <<byte>>

\* the JSON escapes of a text
Escaped(text) == Concat([i \in DOMAIN text |-> EscapedByte(text[i])])

\* serialize_str
SerializeStr(text) == <<"\"">> \o Escaped(text) \o <<"\"">>

\* serialize_bool
SerializeBool(b) == IF b THEN <<"t", "r", "u", "e">> ELSE <<"f", "a", "l", "s", "e">>

\* one field of a struct: "key":value
Field(key, value) == <<SerializeStr(key) \o <<":">> \o value>>

\* a field that is never skipped
FieldUnless_Always(skip, key, value) == Field(key, value)

\* a field under skip_serializing_if: absent when skipped
FieldUnless(skip, key, value) == IF skip THEN <<>> ELSE Field(key, value)

RECURSIVE Join(_)
Join(fields) ==
  IF fields = <<>> THEN <<>>
  ELSE IF Len(fields) = 1 THEN fields[1]
  ELSE fields[1] \o <<",">> \o Join(Tail(fields))

\* a struct: its fields between braces, separated by commas
SerializeStruct(fields) == <<"{">> \o Join(fields) \o <<"}">>

KeyTraceId == <<"t", "r", "a", "c", "e", "_", "i", "d">>
KeyId == <<"i", "d">>
KeyName == <<"n", "a", "m", "e">>
KeyStartTime == <<"s", "t", "a", "r", "t", "_", "t", "i", "m", "e">>
KeyEndTime == <<"e", "n", "d", "_", "t", "i", "m", "e">>
KeyInProgress == <<"i", "n", "_", "p", "r", "o", "g", "r", "e", "s", "s">>
KeyParentId == <<"p", "a", "r", "e", "n", "t", "_", "i", "d">>
KeyFault == <<"f", "a", "u", "l", "t">>
KeyError == <<"e", "r", "r", "o", "r">>
KeyThrottle == <<"t", "h", "r", "o", "t", "t", "l", "e">>
KeyThrottled == <<"t", "h", "r", "o", "t", "t", "l", "e", "d">>
KeyType == <<"t", "y", "p", "e">>
KeyAws == <<"a", "w", "s">>
KeyXray == <<"x", "r", "a", "y">>
KeySdkVersion == <<"s", "d", "k", "_", "v", "e", "r", "s", "i", "o", "n">>
TypeSubsegment == <<"s", "u", "b", "s", "e", "g", "m", "e", "n", "t">>

\* Serialize for XRay and for Aws, with the fields Segment::begin leaves unset skipped
SerializeXRay(xray) ==
  SerializeStruct(Field(KeySdkVersion,
    IF xray.sdk_version = None THEN <<"n", "u", "l", "l">>
    ELSE SerializeStr(xray.sdk_version[1])))
SerializeAws(aws) ==
  SerializeStruct(FieldUnless(aws.xray = None, KeyXray,
    IF aws.xray = None THEN <<>> ELSE SerializeXRay(aws.xray[1])))

\* Serialize for Segment: the fields in the order of the struct
SerializeSegment(doc) ==
  SerializeStruct(
    Field(KeyTraceId, SerializeStr(DisplayTraceId(doc.trace_id)))
    \o Field(KeyId, SerializeStr(DisplaySegmentId(doc.id)))
    \o Field(KeyName, SerializeStr(doc.name))
    \o Field(KeyStartTime, SerializeF64(doc.start_time))
    \o FieldUnless(doc.end_time = None, KeyEndTime,
         IF doc.end_time = None THEN <<>> ELSE SerializeF64(doc.end_time[1]))
    \o FieldUnless(~doc.in_progress, KeyInProgress, SerializeBool(doc.in_progress))
    \o FieldUnless(doc.parent_id = None, KeyParentId,
         IF doc.parent_id = None THEN <<>>
         ELSE SerializeStr(DisplaySegmentId(doc.parent_id[1])))
    \o FieldUnless(~doc.fault, KeyFault, SerializeBool(doc.fault))
    \o FieldUnless(~doc.error, KeyError, SerializeBool(doc.error))
    \o FieldUnless(~doc.throttle, KeyThrottle, SerializeBool(doc.throttle))
    \o FieldUnless(doc.aws = None, KeyAws,
         IF doc.aws = None THEN <<>> ELSE SerializeAws(doc.aws[1])))

\* Serialize for Http and Response; the documents of the model hold no request
SerializeHttp(http) ==
  SerializeStruct(FieldUnless(http.response = None, <<"r", "e", "s", "p", "o", "n", "s", "e">>,
    IF http.response = None THEN <<>>
    ELSE SerializeStruct(
      FieldUnless(http.response[1].status = None, <<"s", "t", "a", "t", "u", "s">>,
        IF http.response[1].status = None THEN <<>>
        ELSE DecimalOf(http.response[1].status[1]))
      \o FieldUnless(http.response[1].content_length = None,
           <<"c", "o", "n", "t", "e", "n", "t", "_", "l", "e", "n", "g", "t", "h">>,
           IF http.response[1].content_length = None THEN <<>>
           ELSE DecimalOf(http.response[1].content_length[1])))))

\* Serialize for AwsOperation, of which the model sets operation and region
SerializeAwsOperation(aws) ==
  SerializeStruct(
    FieldUnless(aws.operation = None, <<"o", "p", "e", "r", "a", "t", "i", "o", "n">>,
      IF aws.operation = None THEN <<>> ELSE SerializeStr(aws.operation[1]))
    \o FieldUnless(aws.region = None, <<"r", "e", "g", "i", "o", "n">>,
         IF aws.region = None THEN <<>> ELSE SerializeStr(aws.region[1])))

\* Serialize for Subsegment: the fields in the order of the struct
SerializeSubsegment(doc) ==
  SerializeStruct(
    Field(KeyName, SerializeStr(doc.name))
    \o Field(KeyId, SerializeStr(DisplaySegmentId(doc.id)))
    \o Field(KeyStartTime, SerializeF64(doc.start_time))
    \o FieldUnless(doc.end_time = None, KeyEndTime,
         IF doc.end_time = None THEN <<>> ELSE SerializeF64(doc.end_time[1]))
    \o FieldUnless(doc.trace_id = None, KeyTraceId,
         IF doc.trace_id = None THEN <<>>
         ELSE SerializeStr(DisplayTraceId(doc.trace_id[1])))
    \o FieldUnless(doc.parent_id = None, KeyParentId,
         IF doc.parent_id = None THEN <<>>
         ELSE SerializeStr(DisplaySegmentId(doc.parent_id[1])))
    \o FieldUnless(~doc.in_progress, KeyInProgress, SerializeBool(doc.in_progress))
    \o FieldUnless(~doc.fault, KeyFault, SerializeBool(doc.fault))
    \o FieldUnless(~doc.error, KeyError, SerializeBool(doc.error))
    \o FieldUnless(~doc.throttled, KeyThrottled, SerializeBool(doc.throttled))
    \o FieldUnless(doc.namespace = None, <<"n", "a", "m", "e", "s", "p", "a", "c", "e">>,
         IF doc.namespace = None THEN <<>> ELSE SerializeStr(doc.namespace[1]))
    \o Field(KeyType, SerializeStr(TypeSubsegment))
    \o FieldUnless(doc.http = None, <<"h", "t", "t", "p">>,
         IF doc.http = None THEN <<>> ELSE SerializeHttp(doc.http[1]))
    \o FieldUnless(doc.aws = None, KeyAws,
         IF doc.aws = None THEN <<>> ELSE SerializeAwsOperation(doc.aws[1])))

\* serde_json::to_vec
to_vec(doc) ==
  IF doc.type = "segment" THEN SerializeSegment(doc) ELSE SerializeSubsegment(doc)

(***************************************************************************)
(* The datagram.                                                           *)
(***************************************************************************)
\* const HEADER, byte for byte as the raw byte string literal spells it
HEADER ==
  <<"{", "\"", "f", "o", "r", "m", "a", "t", "\"", ":", " ", "\"", "j", "s", "o", "n",
    "\"", ",", " ", "\"", "v", "e", "r", "s", "i", "o", "n", "\"", ":", " ", "1", "}",
    "\\", "n">>

\* Client::send: the packet handed to the socket, [HEADER, &bytes].concat()
Packet(value) == HEADER \o to_vec(value)

\* the segment of tests::segments_serialize
RenderedTraceId ==
  <<"1", "-", "5", "8", "1", "c", "f", "7", "7", "1", "-", "a", "0", "0", "6", "6",
    "4", "9", "1", "2", "7", "e", "3", "7", "1", "9", "0", "3", "a", "2", "d", "e",
    "9", "7", "9">>
RenderedSegmentId ==
  <<"7", "0", "d", "e", "5", "b", "6", "f", "1", "9", "f", "f", "9", "a", "0", "a">>
NameScorekeep == <<"S", "c", "o", "r", "e", "k", "e", "e", "p">>
SegmentsSerialize ==
  [type |-> "segment", name |-> NameScorekeep, id |-> SegmentIdRendered(RenderedSegmentId),
   parent_id |-> None, trace_id |-> TraceIdRendered(RenderedTraceId),
   start_time |-> Now, end_time |-> Some(Later), in_progress |-> FALSE,
   fault |-> FALSE, error |-> FALSE, throttle |-> FALSE, aws |-> None]

\* the documents handed to Client::send: segments and subsegments, begun and ended,
\* with generated and with rendered identifiers, and a name that needs escaping
SendNames == {NameScorekeep, <<"a", "\"", "b">>}
SendSegmentIds == {SegmentIdRendered(RenderedSegmentId), SegmentIdDrawn(171)}
SendTraceIds == {TraceIdRendered(RenderedTraceId), TraceIdDrawn(Now, 171)}
SendBegun ==
  UNION {{SegmentBegin(name, id, parent_id, trace_id, Now),
          SubsegmentBegin(name, id, parent_id, trace_id, Now)} :
         name \in SendNames, id \in SendSegmentIds,
         parent_id \in {None, Some(SegmentIdDrawn(10))}, trace_id \in SendTraceIds}
SendDocs == SendBegun \cup {end(doc, Later) : doc \in SendBegun} \cup {SegmentsSerialize}

(***************************************************************************)
(* The recorder.                                                           *)
(***************************************************************************)
VARIABLES
  current,   \* Inner.current: the thread-local slot, per thread an Option<Context>
  handles,   \* the scope handles in the order they were opened
  sent,      \* the calls of Client::send made by the latest scope exit that sent
  datagram,  \* the latest direct call of Client::send: its document, packet and result
  parse,     \* the latest header text handed to Header::from_str, and the result
  document,  \* a Segment or Subsegment driven by begin and end, outside the recorder
  rendered,  \* the latest identifier generated, and its Display text
  client     \* the Client built by Client::default, and the sends in progress on it

vars == <<current, handles, sent, datagram, parse, document, rendered, client>>

\* a slot shared by all threads instead of a thread-local one
ThreadLocalWrite_Shared(slots, t, slot) == [u \in Threads |-> slot]

\* Inner.current is a ThreadLocal: a write on thread t changes the slot of t only
ThreadLocalWrite(slots, t, slot) == [slots EXCEPT ![t] = slot]

\* a segment nested under the active Context instead of a new trace
SegmentContext_Nested(cur, trace_id, segment_id) ==
  [trace_id |-> trace_id,
   parent_id |-> IF cur # None THEN Some(cur[1].segment_id) ELSE None,
   segment_id |-> segment_id]

\* the Context built by begin_segment; cur is current()
SegmentContext(cur, trace_id, segment_id) ==
  [trace_id |-> trace_id, parent_id |-> None, segment_id |-> segment_id]

\* Context::default()
ContextDefault(trace_id, segment_id) ==
  [trace_id |-> trace_id, parent_id |-> None, segment_id |-> segment_id]

\* does begin_subsegment call lambda::header()
ReadsHeader(cur) == cur = None

\* the parent of the active Context taken as the parent instead of its segment_id
SubsegmentContext_GrandParent(cur, env, trace_id, segment_id) ==
  IF cur # None
  THEN [trace_id |-> cur[1].trace_id, parent_id |-> cur[1].parent_id,
        segment_id |-> segment_id]
  ELSE IF header(env) # None
  THEN [trace_id |-> header(env)[1].trace_id, parent_id |-> header(env)[1].parent_id,
        segment_id |-> segment_id]
  ELSE [trace_id |-> trace_id, parent_id |-> None, segment_id |-> segment_id]

\* the host's header consulted before the thread's own Context
SubsegmentContext_HeaderFirst(cur, env, trace_id, segment_id) ==
  IF header(env) # None
  THEN [trace_id |-> header(env)[1].trace_id, parent_id |-> header(env)[1].parent_id,
        segment_id |-> segment_id]
  ELSE IF cur # None
  THEN [trace_id |-> cur[1].trace_id, parent_id |-> Some(cur[1].segment_id),
        segment_id |-> segment_id]
  ELSE [trace_id |-> trace_id, parent_id |-> None, segment_id |-> segment_id]

\* a subsegment that starts a trace of its own under the active Context
SubsegmentContext_FreshTrace(cur, env, trace_id, segment_id) ==
  IF cur # None
  THEN [trace_id |-> trace_id, parent_id |-> Some(cur[1].segment_id),
        segment_id |-> segment_id]
  ELSE IF header(env) # None
  THEN [trace_id |-> header(env)[1].trace_id, parent_id |-> header(env)[1].parent_id,
        segment_id |-> segment_id]
  ELSE ContextDefault(trace_id, segment_id)

\* the Context built by begin_subsegment: cur is current(), env the host's setting
SubsegmentContext(cur, env, trace_id, segment_id) ==
  IF cur # None
  THEN [trace_id |-> cur[1].trace_id, parent_id |-> Some(cur[1].segment_id),
        segment_id |-> segment_id]
  ELSE IF header(env) # None
  THEN [trace_id |-> header(env)[1].trace_id, parent_id |-> header(env)[1].parent_id,
        segment_id |-> segment_id]
  ELSE ContextDefault(trace_id, segment_id)

\* Recorder::set: the slot after ThreadLocal::set(ctx)
set(slot, ctx) == Some(ctx)

\* Recorder::set: Current.prev, the value ThreadLocal::set returned
SetPrev(slot) == slot

\* a drop that always clears the slot
DropCurrent_AlwaysRemove(slot, prev) == None

\* Drop for Current: the slot after set(prev) or remove()
DropCurrent(slot, prev) == IF prev # None THEN Some(prev[1]) ELSE None

\* Client::send: what the call returns for the socket's outcome
SocketOutcomes == {"sent", "not_ready", "io_error"}
send(doc, io) == IF io = "io_error" THEN Err ELSE Ok("unit")

\* an emit that sends again when the first send failed
emit_Retry(h, doc, slot, io) ==
  IF send(doc, io) = Err
  THEN <<[h |-> h, doc |-> doc, result |-> send(doc, io), slot |-> slot],
         [h |-> h, doc |-> doc, result |-> send(doc, io), slot |-> slot]>>
  ELSE <<[h |-> h, doc |-> doc, result |-> send(doc, io), slot |-> slot]>>

\* Recorder::emit: one call of Client::send, its error logged and dropped; the
\* value is the sequence of the calls made (slot is the thread's slot at the call)
emit(h, doc, slot, io) ==
  <<[h |-> h, doc |-> doc, result |-> send(doc, io), slot |-> slot]>>

\* Recorder::emit: how the call ends for its caller, whatever send returned
EmitExit(result) == "returned"

\* Recorder::emit: log::debug! runs exactly when Client::send returned an Err
EmitLogs(result) == result = Err

\* a drop that emits the document without ending it
DropOpen_NoEnd(h, state, slot, io) ==
  IF state # None THEN emit(h, state[1], slot, io) ELSE <<>>

\* a drop that emits a default document when the handle holds none
DropOpen_UnwrapOrDefault(h, state, slot, io) ==
  IF state # None THEN emit(h, end(state[1], Now), slot, io)
  ELSE emit(h, end(SubsegmentBegin(<<>>, SegmentIdDrawn(1), None, TraceIdDrawn(Now, 1), Now),
                   Now), slot, io)

\* Drop for OpenSegment and OpenSubsegment: end and emit the document, if still
\* held; the value is the sequence of the calls of Client::send made
DropOpen(h, state, slot, io) ==
  IF state # None THEN emit(h, end(state[1], Now), slot, io) ELSE <<>>

\* a scope handle; before and drawn record the slot and the inputs at opening
Handle(t, kind, prev, context, state, before, drawn) ==
  [thread |-> t, kind |-> kind, prev |-> prev, context |-> Some(context), state |-> state,
   open |-> TRUE, before |-> before, drawn |-> drawn, taken |-> FALSE, exit |-> None,
   sends |-> 0, request |-> None]

\* what is left of a handle once it is released: how the exit ended and how many
\* calls of Client::send it made
Released(hd, exit, calls) ==
  [thread |-> hd.thread, kind |-> hd.kind, prev |-> None, context |-> None, state |-> None,
   open |-> FALSE, before |-> None, drawn |-> None, taken |-> hd.taken, exit |-> Some(exit),
   sends |-> Len(calls),
   request |-> IF hd.request = None THEN None ELSE Some("released")]

\* The threads are interchangeable, so they are numbered in the order in which
\* they open their first scope.
Started(t) == t = 1 \/ \E h \in DOMAIN handles : handles[h].thread = t - 1

Init ==
  /\ current = [t \in Threads |-> None]
  /\ handles = <<>>
  /\ sent = <<>>
  /\ datagram = None
  /\ parse = None
  /\ document = None
  /\ rendered = None
  /\ client = None

\* Recorder::begin_segment on thread t
begin_segment(t) ==
  /\ Started(t)
  /\ \E tb \in Draws(NumTraceIds, Len(handles) + 1),
        sb \in Draws(NumSegIds, Len(handles) + 1), name \in Names :
       LET context == SegmentContext(current[t], TraceIdDrawn(Now, tb), SegmentIdDrawn(sb))
           prev == SetPrev(current[t])
           state == Some(SegmentBegin(name, context.segment_id, context.parent_id,
                                      context.trace_id, Now))
       IN /\ current' = ThreadLocalWrite(current, t, set(current[t], context))
          /\ handles' = Append(handles,
               Handle(t, "segment", prev, context, state, current[t],
                      Some([env |-> None, trace |-> Some(TraceIdDrawn(Now, tb)),
                            seg |-> Some(SegmentIdDrawn(sb))])))
  /\ UNCHANGED <<sent, datagram, parse, document, rendered, client>>

\* Recorder::begin_subsegment on thread t with the identifiers drawn, the value
\* of the environment and the name given: the handle it returns
OpenSubsegmentNew(t, trace_id, segment_id, env, name) ==
  LET reads == ReadsHeader(current[t])
      context == SubsegmentContext(current[t], env, trace_id, segment_id)
      prev == SetPrev(current[t])
      state == Some(SubsegmentBegin(name, context.segment_id, context.parent_id,
                                    context.trace_id, Now))
  IN Handle(t, "subsegment", prev, context, state, current[t],
            Some([env |-> IF reads THEN Some(env) ELSE None,
                  trace |-> IF reads /\ header(env) = None THEN Some(trace_id) ELSE None,
                  seg |-> Some(segment_id)]))

\* Recorder::begin_subsegment on thread t
begin_subsegment(t) ==
  /\ Started(t)
  /\ \E tb \in Draws(NumTraceIds, Len(handles) + 1),
        sb \in Draws(NumSegIds, Len(handles) + 1), env \in EnvValues, name \in Names :
       LET hd == OpenSubsegmentNew(t, TraceIdDrawn(Now, tb), SegmentIdDrawn(sb), env, name)
       IN /\ current' = ThreadLocalWrite(current, t, set(current[t], hd.context[1]))
          /\ handles' = Append(handles, hd)
  /\ UNCHANGED <<sent, datagram, parse, document, rendered, client>>

\* Recorder::set on thread t, with a Context that current() returned on some thread
Set(t) ==
  /\ Started(t)
  /\ \E u \in Threads :
       /\ current[u] # None
       /\ LET ctx == current[u][1]
              prev == SetPrev(current[t])
          IN /\ current' = ThreadLocalWrite(current, t, set(current[t], ctx))
             /\ handles' = Append(handles,
                  Handle(t, "current", prev, ctx, None, current[t],
                         Some([env |-> None, trace |-> None, seg |-> None])))
  /\ UNCHANGED <<sent, datagram, parse, document, rendered, client>>

\* the caller takes the document out of an open subsegment handle:
\* *open.subsegment() = None
TakeDocument(h) ==
  /\ handles[h].open
  /\ handles[h].kind = "subsegment"
  /\ handles[h].state # None
  /\ handles' = [handles EXCEPT ![h].state = None, ![h].taken = TRUE]
  /\ UNCHANGED <<current, sent, datagram, parse, document, rendered, client>>

\* a release that drops the field current before the body of Drop runs
SlotAtEmit_RestoredFirst(slot, prev) == DropCurrent(slot, prev)

\* the thread's slot while Drop for OpenSegment / OpenSubsegment emits: the body
\* of Drop runs before the fields of the handle are dropped, so the slot is not
\* yet restored
SlotAtEmit(slot, prev) == slot

\* the handle h is released on its thread: Drop for OpenSegment / OpenSubsegment,
\* then the drop of its fields (Drop for Current)
Release(h) ==
  /\ handles[h].open
  /\ \E io \in SocketOutcomes :
       LET hd == handles[h]
           t == hd.thread
           calls == DropOpen(h, hd.state, SlotAtEmit(current[t], hd.prev), io)
       IN /\ sent' = IF calls # <<>> THEN calls ELSE sent
          /\ current' = ThreadLocalWrite(current, t, DropCurrent(current[t], hd.prev))
          /\ handles' = [handles EXCEPT ![h] =
               Released(hd, IF hd.state # None THEN EmitExit(send(hd.state[1], io))
                            ELSE "returned", calls)]
  /\ UNCHANGED <<datagram, parse, document, rendered, client>>

\* the scopes opened so far are fewer than the bound
HasRoom(bound) == Len(handles) < bound

Next ==
  \/ \E t \in Threads : HasRoom(MaxScopes) /\ begin_segment(t)
  \/ \E t \in Threads : HasRoom(MaxScopes) /\ begin_subsegment(t)
  \/ \E t \in Threads : HasRoom(MaxScopes) /\ Set(t)
  \/ \E h \in DOMAIN handles : TakeDocument(h)
  \/ \E h \in DOMAIN handles : Release(h)

Spec == Init /\ [][Next]_vars

\* Client::send called with a document
MaxDepth == 3

\* one thread that opens a segment first and opens and releases its scopes in
\* strict nesting: the scope released is always the innermost open one
NextNested ==
  \/ HasRoom(MaxDepth) /\ begin_segment(1)
  \/ HasRoom(MaxDepth) /\ current[1] # None /\ begin_subsegment(1)
  \/ \E h \in DOMAIN handles :
       (\A g \in DOMAIN handles : handles[g].open => g <= h) /\ Release(h)

SpecNested == Init /\ [][NextNested]_vars

(***************************************************************************)
(* The rusoto dispatcher: TracedRequests and TracingRequest.               *)
(***************************************************************************)
\* the value of a decimal digit, 10 for any other character
DigitValue(ch) ==
  IF \E d \in 0..9 : HexDigits[d + 1] = ch THEN CHOOSE d \in 0..9 : HexDigits[d + 1] = ch
  ELSE 10

\* the number written by a text of decimal digits, Err for an empty text and
\* for a text with any other character
RECURSIVE ParseDigits(_)
ParseDigits(text) ==
  IF text = <<>> \/ DigitValue(text[Len(text)]) = 10 THEN Err
  ELSE IF Len(text) = 1 THEN Ok(DigitValue(text[1]))
  ELSE LET front == ParseDigits(SubSeq(text, 1, Len(text) - 1))
       IN IF front = Err THEN Err ELSE Ok(front.value * 10 + DigitValue(text[Len(text)]))

\* str::parse::<u64>: decimal digits after an optional "+"; the texts of the
\* model are too short to exceed a u64
ParseU64(text) ==
  IF text # <<>> /\ text[1] = "+" THEN ParseDigits(Tail(text)) ELSE ParseDigits(text)

\* the values of the header x-amz-target of the requests dispatched, if it is set
Targets == {None, Some(<<"D", ".", "L">>), Some(<<"D", "L">>)}

\* dispatch: the operation is the text of x-amz-target from its first "." on
Operation(target) ==
  IF target = None THEN None
  ELSE IF Find(target[1], ".") = 0 THEN None
  ELSE Some(SubSeq(target[1], Find(target[1], "."), Len(target[1])))

RegionName == <<"u", "s", "-", "e", "a", "s", "t", "-", "1">>
NamespaceAws == <<"a", "w", "s">>

\* AwsOperation { operation, region, ..AwsOperation::default() }
AwsOperation(operation, region) == [operation |-> operation, region |-> region]

\* the responses of the wrapped dispatcher: a status and the value of the header
\* Content-Length, if it is set
Responses ==
  {[status |-> 200, content_length |-> Some(<<"1", "2">>)],
   [status |-> 404, content_length |-> Some(<<"x">>)],
   [status |-> 500, content_length |-> None]}

\* what a poll of the wrapped future returns: Ok(Async::Ready(res)), Err(_) or
\* Ok(Async::NotReady)
PollOutcomes ==
  {[kind |-> "ready", res |-> Some(res)] : res \in Responses}
    \cup {[kind |-> "error", res |-> None], [kind |-> "not_ready", res |-> None]}

\* Http { response: Some(Response { status, content_length }), ..Http::default() }
HttpOfResponse(res) ==
  [request |-> None,
   response |-> Some([status |-> Some(res.status),
                      content_length |->
                        IF res.content_length = None THEN None
                        ELSE IF ParseU64(res.content_length[1]) = Err THEN None
                        ELSE Some(ParseU64(res.content_length[1]).value)])]

\* a poll that records a response for an error as well
PollSubsegment_AlsoOnError(state, outcome) ==
  IF state = None THEN state
  ELSE IF outcome.kind = "ready"
  THEN Some([state[1] EXCEPT !.http = Some(HttpOfResponse(outcome.res[1]))])
  ELSE IF outcome.kind = "error"
  THEN Some([state[1] EXCEPT !.http = Some([request |-> None, response |-> None])])
  ELSE state

\* TracingRequest::poll: what it leaves in the handle's subsegment
PollSubsegment(state, outcome) ==
  IF outcome.kind = "ready" /\ state # None
  THEN Some([state[1] EXCEPT !.http = Some(HttpOfResponse(outcome.res[1]))])
  ELSE state

\* TracedRequests::dispatch on thread t: the subsegment is begun and filled in,
\* and the handle is kept in the TracingRequest returned
dispatch(t) ==
  /\ Started(t)
  /\ \E tb \in Draws(NumTraceIds, Len(handles) + 1),
        sb \in Draws(NumSegIds, Len(handles) + 1), env \in EnvValues, name \in Names,
        target \in Targets :
       LET open == OpenSubsegmentNew(t, TraceIdDrawn(Now, tb), SegmentIdDrawn(sb), env, name)
           sub == [open.state[1] EXCEPT
                     !.aws = Some(AwsOperation(Operation(target), Some(RegionName))),
                     !.namespace = Some(NamespaceAws)]
       IN /\ current' = ThreadLocalWrite(current, t, set(current[t], open.context[1]))
          /\ handles' = Append(handles,
               [open EXCEPT !.state = Some(sub), !.request = Some("pending")])
  /\ UNCHANGED <<sent, datagram, parse, document, rendered, client>>

\* TracingRequest::poll of the request that holds handle h, its wrapped future
\* not yet resolved
poll(h) ==
  /\ handles[h].open
  /\ handles[h].request = Some("pending")
  /\ \E outcome \in PollOutcomes :
       handles' = [handles EXCEPT ![h].state = PollSubsegment(@, outcome),
                                  ![h].request = IF outcome.kind = "not_ready" THEN @
                                                 ELSE Some(outcome.kind)]
  /\ UNCHANGED <<current, sent, datagram, parse, document, rendered, client>>

MaxRequests == 1

\* one thread that dispatches requests, whose futures are polled and released
\* in any order
NextRequests ==
  \/ HasRoom(MaxRequests) /\ dispatch(1)
  \/ \E h \in DOMAIN handles : poll(h)
  \/ \E h \in DOMAIN handles : Release(h)

SpecRequests == Init /\ [][NextRequests]_vars

\* one thread that opens a segment and dispatches its requests while a Context
\* is active
NextInSegment ==
  \/ handles = <<>> /\ begin_segment(1)
  \/ HasRoom(MaxDepth) /\ current[1] # None /\ dispatch(1)
  \/ \E h \in DOMAIN handles : poll(h)
  \/ \E h \in DOMAIN handles : Release(h)

SpecInSegment == Init /\ [][NextInSegment]_vars

(***************************************************************************)
(* The client: its address, and sends on its socket from several threads.  *)
(***************************************************************************)
\* a decimal number of at most digits digits that is at most max
ParseNumber(text, digits, max) ==
  IF Len(text) > digits \/ ParseDigits(text) = Err THEN Err
  ELSE IF ParseDigits(text).value > max THEN Err
  ELSE ParseDigits(text)

\* str::parse::<SocketAddr> for the texts of the model, which hold no IPv6
\* address: four numbers up to 255 joined by ".", then ":" and a port up to 65535
ParseSocketAddr(text) ==
  LET parts == Split(text, ":")
      octets == IF Len(parts) = 2 THEN Split(parts[1], ".") ELSE <<>>
  IN IF Len(parts) # 2 \/ Len(octets) # 4 THEN Err
     ELSE IF \E i \in 1..4 : ParseNumber(octets[i], 3, 255) = Err THEN Err
     ELSE IF ParseNumber(parts[2], 5, 65535) = Err THEN Err
     ELSE Ok([ip |-> [i \in 1..4 |-> ParseNumber(octets[i], 3, 255).value],
              port |-> ParseNumber(parts[2], 5, 65535).value])

\* ([127, 0, 0, 1], 2000).into()
DefaultAddr == [ip |-> <<127, 0, 0, 1>>, port |-> 2000]

StrAddr == <<"1", "0", ".", "0", ".", "0", ".", "5", ":", "3", "0", "0", "0">>
StrHostName == <<"d", "a", "e", "m", "o", "n", ":", "2", "0", "0", "0">>
StrNoPort == <<"1", "0", ".", "0", ".", "0", ".", "5">>
StrOctet256 == <<"1", "0", ".", "0", ".", "0", ".", "2", "5", "6", ":", "3", "0", "0", "0">>
StrPort65536 == <<"1", "0", ".", "0", ".", "0", ".", "5", ":", "6", "5", "5", "3", "6">>

\* env::var("AWS_XRAY_DAEMON_ADDRESS"): None when the variable is not set
DaemonSettings ==
  {None, Some(StrAddr), Some(StrHostName), Some(StrNoPort), Some(StrOctet256),
   Some(StrPort65536), Some(<<>>)}

\* an address that is the default whatever the setting
ClientAddr_IgnoresSetting(setting) == DefaultAddr

\* Client::default: the address the client connects to
ClientAddr(setting) ==
  IF setting = None THEN DefaultAddr
  ELSE IF ParseSocketAddr(setting[1]) = Err THEN DefaultAddr
  ELSE ParseSocketAddr(setting[1]).value

\* what binding and connecting the socket can report
ConnectOutcomes == {"connected", "bind_error", "connect_error"}

\* Client::new(addr).unwrap() in Client::default: bind(..).expect(..) panics and
\* connect(..)? returns the Err that unwrap turns into a panic
ClientNew(addr, io) == IF io = "connected" THEN "constructed" ELSE "panicked"

\* Client::default
ClientDefault ==
  /\ client = None
  /\ \E setting \in DaemonSettings, io \in ConnectOutcomes :
       client' = Some([setting |-> setting, io |-> io, addr |-> ClientAddr(setting),
                       outcome |-> ClientNew(ClientAddr(setting), io),
                       borrows |-> {},
                       pc |-> [t \in Threads |-> "idle"],
                       result |-> [t \in Threads |-> None]])
  /\ UNCHANGED <<current, handles, sent, datagram, parse, document, rendered>>

\* Client::send on thread t, first half: self.socket.borrow_mut(). The socket is
\* in a RefCell, whose borrow flag is not synchronized: a thread that borrows
\* while another holds the borrow either sees the flag and panics with
\* BorrowMutError, or misses it and borrows as well.
BorrowMut(t) ==
  /\ client # None
  /\ client[1].outcome = "constructed"
  /\ client[1].pc[t] = "idle"
  /\ \E seen \in IF client[1].borrows = {} THEN {FALSE} ELSE {TRUE, FALSE} :
       client' = Some([client[1] EXCEPT
                         !.pc[t] = IF seen THEN "panicked" ELSE "borrowed",
                         !.borrows = IF seen THEN @ ELSE @ \cup {t}])
  /\ UNCHANGED <<current, handles, sent, datagram, parse, document, rendered>>

\* Client::send on thread t, second half: poll_send hands the packet to the
\* socket as one datagram, and the borrow ends with the statement
PollSend(t) ==
  /\ client # None
  /\ client[1].pc[t] = "borrowed"
  /\ \E value \in SendDocs, io \in SocketOutcomes :
       client' = Some([client[1] EXCEPT
                         !.pc[t] = "idle",
                         !.borrows = @ \ {t},
                         !.result[t] = Some(send(value, io))])
  /\ UNCHANGED <<current, handles, sent, datagram, parse, document, rendered>>

NextClient ==
  \/ ClientDefault
  \/ \E t \in Threads : BorrowMut(t)
  \/ \E t \in Threads : PollSend(t)

\* the client alone: its construction, and threads that send on it
SpecClient == Init /\ [][NextClient]_vars

ClientSend ==
  /\ \E value \in SendDocs, io \in SocketOutcomes :
       datagram' = Some([value |-> value, packet |-> Packet(value), io |-> io,
                         result |-> send(value, io)])
  /\ UNCHANGED <<current, handles, sent, parse, document, rendered, client>>

NextSend == ClientSend

\* the transport alone: documents handed to Client::send
SpecSend == Init /\ [][NextSend]_vars

\* the number of calls of end on one document
MaxEnds == 2

\* Segment::begin or Subsegment::begin is called with a name: the call panics or
\* returns the document that is followed from then on
Begin ==
  /\ document = None
  /\ \E kind \in {"segment", "subsegment"}, chars \in GivenNames,
        parent_id \in {None, Some(SegmentIdDrawn(1))} :
       LET name == Utf8(chars)
           id == SegmentIdDrawn(2)
           trace_id == TraceIdDrawn(Now, 1)
       IN document' =
            Some(IF ValidName(name) = Err
                 THEN [kind |-> kind, given |-> chars, outcome |-> "panicked",
                       doc |-> None, ends |-> 0]
                 ELSE [kind |-> kind, given |-> chars, outcome |-> "returned",
                       doc |-> Some(IF kind = "segment"
                                    THEN SegmentBegin(name, id, parent_id, trace_id, Now)
                                    ELSE SubsegmentBegin(name, id, parent_id, trace_id, Now)),
                       ends |-> 0])
  /\ UNCHANGED <<current, handles, sent, datagram, parse, rendered, client>>

\* Segment::end or Subsegment::end is called on the document
End ==
  /\ document # None
  /\ document[1].outcome = "returned"
  /\ document[1].ends < MaxEnds
  /\ \E time \in {Now, Later} :
       document' = Some([document[1] EXCEPT !.doc = Some(end(document[1].doc[1], time)),
                                            !.ends = @ + 1])
  /\ UNCHANGED <<current, handles, sent, datagram, parse, rendered, client>>

\* the caller sets one of the public flags of the document
SetFlag ==
  /\ document # None
  /\ document[1].outcome = "returned"
  /\ \E flag \in {"fault", "error",
                   IF document[1].kind = "segment" THEN "throttle" ELSE "throttled"} :
       /\ ~document[1].doc[1][flag]
       /\ document' = Some([document[1] EXCEPT !.doc = Some([document[1].doc[1] EXCEPT
                                                              ![flag] = TRUE])])
  /\ UNCHANGED <<current, handles, sent, datagram, parse, rendered, client>>

\* the caller assigns None to the public field aws of a Segment
ClearAws ==
  /\ document # None
  /\ document[1].outcome = "returned"
  /\ document[1].doc[1].aws # None
  /\ document' = Some([document[1] EXCEPT !.doc = Some([document[1].doc[1] EXCEPT
                                                         !.aws = None])])
  /\ UNCHANGED <<current, handles, sent, datagram, parse, rendered, client>>

NextDocument == Begin \/ End \/ SetFlag \/ ClearAws

\* a document alone, outside the recorder
SpecDocument == Init /\ [][NextDocument]_vars

\* the values of the bytes and of the seconds of the identifiers that are rendered
ByteSamples == {0, 10, 15, 16, 255}
ByteArrays(len) ==
  {[i \in 1..len |-> IF i = 1 THEN first ELSE IF i = len THEN last ELSE middle] :
     first \in ByteSamples, middle \in ByteSamples, last \in ByteSamples}
LimbSamples == {0, 1, LimbBase - 1}
SecondsSamples ==
  {<<a, b, c, d>> : a \in LimbSamples, b \in LimbSamples, c \in LimbSamples,
                    d \in LimbSamples} \cup {U64FromNat(Now.whole)}

\* a TraceId is rendered with Display
RenderTraceId ==
  /\ rendered = None
  /\ \E seconds \in SecondsSamples, bytes \in ByteArrays(TraceIdLen) :
       rendered' = Some([kind |-> "trace", seconds |-> seconds, bytes |-> bytes,
                         text |-> DisplayTraceId(TraceIdNew(seconds, bytes))])
  /\ UNCHANGED <<current, handles, sent, datagram, parse, document, client>>

\* a SegmentId is rendered with Display
RenderSegmentId ==
  /\ rendered = None
  /\ \E bytes \in ByteArrays(SegmentIdLen) :
       rendered' = Some([kind |-> "segment", seconds |-> <<>>, bytes |-> bytes,
                         text |-> DisplaySegmentId(SegmentIdNew(bytes))])
  /\ UNCHANGED <<current, handles, sent, datagram, parse, document, client>>

NextRender == RenderTraceId \/ RenderSegmentId

\* the rendering of identifiers alone
SpecRender == Init /\ [][NextRender]_vars

\* a header text is handed to Header::from_str: the text parsed before with one
\* more segment (the first text has one segment)
ParseHeader ==
  /\ IF parse = None THEN TRUE ELSE Len(parse[1].segments) < MaxSegments
  /\ \E seg \in HeaderSegments :
       LET segments == IF parse = None THEN <<seg>> ELSE Append(parse[1].segments, seg)
           s == HeaderText(segments)
       IN parse' = Some([segments |-> segments, s |-> s, result |-> from_str(s)])
  /\ UNCHANGED <<current, handles, sent, datagram, document, rendered, client>>

NextHeader == ParseHeader

\* the header parser alone
SpecHeader == Init /\ [][NextHeader]_vars

(***************************************************************************)
(* Helpers of the properties.                                              *)
(***************************************************************************)
\* h is the most recently opened unreleased scope of its thread
IsInnermost(h) ==
  /\ handles[h].open
  /\ \A g \in DOMAIN handles :
       (handles[g].open /\ handles[g].thread = handles[h].thread) => g <= h

\* this step releases handle h
Releases(h) == h \in DOMAIN handles /\ handles[h].open /\ ~handles'[h].open

\* this step opens a handle
Opens == Len(handles') = Len(handles) + 1

(***************************************************************************)
(* Properties of the recorder.                                             *)
(***************************************************************************)
IsScope(h) == handles[h].kind \in {"segment", "subsegment"}

Finalized(doc) == doc.in_progress = FALSE /\ doc.end_time # None

\* the handle opened by this step
Opened == handles'[Len(handles')]

\* C1 as stated: every scope opened with begin_segment or begin_subsegment, once
\* released, has had exactly one send of its document, and that document was
\* finalized (in_progress = false, end_time set).
C1_ExactlyOneSend ==
  \A h \in DOMAIN handles :
    (IsScope(h) /\ ~handles[h].open) =>
      /\ handles[h].sends = 1
      /\ \A i \in DOMAIN sent : Finalized(sent[i].doc)

\* C1 amended: a released scope whose document the caller did not take out of the
\* handle has had exactly one send, of the finalized document; a released scope
\* whose document was taken out has had none; an open scope has had none.
C1_ExactlyOneSendUnlessTaken ==
  /\ \A i \in DOMAIN sent : Finalized(sent[i].doc)
  /\ \A h \in DOMAIN handles :
       IsScope(h) =>
         /\ handles[h].open => handles[h].sends = 0
         /\ (~handles[h].open /\ ~handles[h].taken) => handles[h].sends = 1
         /\ (~handles[h].open /\ handles[h].taken) => handles[h].sends = 0

C1_Witness ==
  \E h \in DOMAIN handles :
    /\ handles[h].kind = "subsegment" /\ ~handles[h].open /\ ~handles[h].taken
    /\ handles[h].sends = 1
    /\ Len(sent) = 1 /\ sent[1].h = h
    /\ Finalized(sent[1].doc) /\ sent[1].doc.type = "subsegment"

\* C2: when the most recently opened unreleased scope of a thread is released,
\* current() on that thread is afterwards the value (a Context or None) that was
\* active immediately before that scope was opened.
C2_StrictRestore ==
  [][\A h \in DOMAIN handles :
       (Releases(h) /\ IsInnermost(h)) =>
         current'[handles[h].thread] = handles[h].before]_vars

C2_Witness ==
  \E g, h \in DOMAIN handles :
    /\ g < h /\ handles[g].thread = handles[h].thread
    /\ handles[g].open /\ ~handles[h].open
    /\ current[handles[g].thread] = handles[g].context

C4_SegmentStartsNewTrace ==
  [][\A t \in Threads :
       (Opens /\ Opened.kind = "segment" /\ Opened.thread = t) =>
         /\ current'[t] = Opened.context
         /\ Opened.context[1] =
              [trace_id |-> Opened.drawn[1].trace[1],
               parent_id |-> None,
               segment_id |-> Opened.drawn[1].seg[1]]
         /\ Opened.prev = current[t]
         /\ Opened.state[1].trace_id = Opened.context[1].trace_id
         /\ Opened.state[1].parent_id = None
         /\ Opened.state[1].id = Opened.context[1].segment_id]_vars

C4_Witness ==
  \E h \in DOMAIN handles :
    /\ handles[h].open /\ handles[h].kind = "segment"
    /\ handles[h].before # None
    /\ handles[h].prev = handles[h].before
    /\ current[handles[h].thread] = handles[h].context
    /\ handles[h].context[1].parent_id = None
    /\ handles[h].context[1].trace_id # handles[h].before[1].trace_id
    /\ handles[h].context[1].segment_id # handles[h].before[1].segment_id

\* C5: with no Context active, begin_subsegment reads the host's trace header; if
\* the setting is present and parses, the new Context has the header's trace_id
\* and parent_id and the generated segment_id; if it is absent or does not parse,
\* the new Context has the generated trace_id and segment_id and no parent_id.
\* With a Context active the header is not read and the result depends on that
\* Context and the generated segment_id only.
C5_HeaderFallback ==
  [][\A t \in Threads :
       (Opens /\ Opened.kind = "subsegment" /\ Opened.thread = t) =>
         LET ctx == Opened.context[1]
             drawn == Opened.drawn[1]
         IN /\ current'[t] = Some(ctx)
            /\ current[t] = None =>
                 /\ drawn.env # None
                 /\ (drawn.env[1] # None /\ from_str(drawn.env[1][1]).ok) =>
                      LET parsed == from_str(drawn.env[1][1]).value
                      IN ctx = [trace_id |-> TraceIdRendered(parsed.trace_id),
                                parent_id |-> IF parsed.parent_id = None THEN None
                                              ELSE Some(SegmentIdRendered(parsed.parent_id[1])),
                                segment_id |-> drawn.seg[1]]
                 /\ (drawn.env[1] = None \/ ~from_str(drawn.env[1][1]).ok) =>
                      ctx = [trace_id |-> drawn.trace[1],
                             parent_id |-> None,
                             segment_id |-> drawn.seg[1]]
            /\ current[t] # None =>
                 /\ drawn.env = None
                 /\ ctx = [trace_id |-> current[t][1].trace_id,
                           parent_id |-> Some(current[t][1].segment_id),
                           segment_id |-> drawn.seg[1]]]_vars

C5_Witness ==
  \E h \in DOMAIN handles :
    /\ handles[h].open /\ handles[h].kind = "subsegment"
    /\ handles[h].before = None
    /\ handles[h].drawn[1].env = Some(Some(HdrFull))
    /\ handles[h].context[1].trace_id = TraceIdRendered(<<"a">>)
    /\ handles[h].context[1].parent_id = Some(SegmentIdRendered(<<"b">>))

\* C6: a subsegment handle whose document the caller took out sends nothing when
\* it is released and still restores the thread's slot; no handle sends its
\* document more than once, and a released handle holds no document.
C6_TakenSendsNothing ==
  /\ [](\A h \in DOMAIN handles :
          /\ handles[h].sends <= 1
          /\ ~handles[h].open => handles[h].state = None)
  /\ [][\A h \in DOMAIN handles :
          (Releases(h) /\ handles[h].taken) =>
            /\ sent' = sent
            /\ handles'[h].sends = 0
            /\ current'[handles[h].thread] = handles[h].before]_vars

C6_Witness ==
  \E g, h \in DOMAIN handles :
    /\ g < h /\ handles[g].thread = handles[h].thread
    /\ handles[g].open
    /\ ~handles[h].open /\ handles[h].taken
    /\ handles[h].sends = 0
    /\ current[handles[h].thread] = handles[g].context

\* C7: within one thread a scope is only ever released while it is the most
\* recently opened unreleased scope of that thread (scopes close in the reverse
\* of the order in which they were opened).
C7_ReverseOrder ==
  [][\A h \in DOMAIN handles : Releases(h) => IsInnermost(h)]_vars

\* C8: a step changes current() of a thread only if that thread opens or releases
\* a scope in it, and a thread that opened no scope sees current() = None.
C8_SlotsAreThreadLocal ==
  /\ [](\A t \in Threads :
          (\A h \in DOMAIN handles : handles[h].thread # t) => current[t] = None)
  /\ [][\A t \in Threads :
          current'[t] # current[t] =>
            \/ Opens /\ Opened.thread = t
            \/ \E h \in DOMAIN handles : Releases(h) /\ handles[h].thread = t]_vars

C8_Witness ==
  \E g, h \in DOMAIN handles :
    /\ handles[g].thread # handles[h].thread
    /\ handles[g].open /\ handles[h].open
    /\ current[handles[g].thread] = handles[g].context
    /\ current[handles[h].thread] = handles[h].context
    /\ handles[g].context # handles[h].context

\* C10: when the send made at scope exit fails, the exit still returns normally,
\* the slot is restored to the saved value, the handle keeps no document and
\* exactly one send was attempted; no document is ever sent twice.
C10_FailedSendIsSwallowed ==
  /\ [](\A h \in DOMAIN handles : handles[h].sends <= 1)
  /\ [][\A h \in DOMAIN handles :
          (Releases(h) /\ handles'[h].sends > 0 /\ sent'[1].result = Err) =>
            /\ handles'[h].sends = 1
            /\ Len(sent') = 1 /\ sent'[1].h = h
            /\ current'[handles[h].thread] = handles[h].before
            /\ handles'[h].state = None
            /\ handles'[h].exit = Some("returned")]_vars

C10_Witness ==
  \E g, h \in DOMAIN handles :
    /\ g < h /\ handles[g].thread = handles[h].thread
    /\ handles[g].open
    /\ ~handles[h].open /\ handles[h].exit = Some("returned")
    /\ handles[h].sends = 1
    /\ sent[1].h = h /\ sent[1].result = Err
    /\ current[handles[h].thread] = handles[g].context
(***************************************************************************)
(* Properties of the datagram.                                             *)
(***************************************************************************)
\* the header record of the daemon's protocol
HeaderRecord ==
  <<"{", "\"", "f", "o", "r", "m", "a", "t", "\"", ":", " ", "\"", "j", "s", "o", "n",
    "\"", ",", " ", "\"", "v", "e", "r", "s", "i", "o", "n", "\"", ":", " ", "1", "}">>

\* C9: the datagram Client::send builds for a document is the header record, then
\* exactly one line-feed byte, then the JSON serialization of the document, and
\* nothing else before, between or after.
C9_HeaderLineFeedJson ==
  datagram # None =>
    datagram[1].packet = HeaderRecord \o <<"\n">> \o to_vec(datagram[1].value)

(***************************************************************************)
(* Properties of the header parser.                                        *)
(***************************************************************************)
\* every segment of the text is a key=value segment
AllKeyValue(segments) == \A i \in DOMAIN segments : segments[i].kv

\* the positions of the key=value segments with this key
KeyAt(segments, key) == {i \in DOMAIN segments : segments[i].kv /\ segments[i].key = key}

\* the text without its segments of this key
WithoutKey(segments, key) ==
  LET Keep(seg) == ~(seg.kv /\ seg.key = key) IN SelectSeq(segments, Keep)

\* the orders the segments of a text can be put in
Orders(segments) ==
  LET n == Len(segments)
      Bijections == {f \in [1..n -> 1..n] : \A i, j \in 1..n : i # j => f[i] # f[j]}
  IN {[i \in 1..n |-> segments[f[i]]] : f \in Bijections}

KnownKeys == {StrRoot, StrParent, StrSampled, StrSelf}

\* C11: a header text made only of key=value segments, with its Root segment and at
\* most one Parent segment, parses successfully; trace_id is the value of the Root
\* segment verbatim, parent_id is Some(value of the Parent segment) when there is one
\* and None when there is none, and the same text without the Parent segment parses
\* to the same header but for parent_id.
C11_RootAndParent ==
  parse # None =>
    LET segments == parse[1].segments
        result == parse[1].result
        roots == KeyAt(segments, StrRoot)
        parents == KeyAt(segments, StrParent)
    IN (AllKeyValue(segments) /\ Cardinality(roots) = 1 /\ Cardinality(parents) <= 1) =>
         /\ result # Err
         /\ result.value.trace_id = segments[CHOOSE i \in roots : TRUE].value
         /\ result.value.parent_id =
              IF parents = {} THEN None
              ELSE Some(segments[CHOOSE i \in parents : TRUE].value)
         /\ from_str(HeaderText(WithoutKey(segments, StrParent))) =
              Ok([result.value EXCEPT !.parent_id = None])

\* a text with a Root whose value holds a "=", a Parent and a Sampled segment was parsed
C11_Witness ==
  /\ parse # None
  /\ LET segments == parse[1].segments
     IN /\ Len(segments) = 3
        /\ AllKeyValue(segments)
        /\ segments[1] = KeyValue(StrRoot, <<"b", "=", "c">>)
        /\ Cardinality(KeyAt(segments, StrParent)) = 1
        /\ Cardinality(KeyAt(segments, StrSampled)) = 1
  /\ parse[1].result # Err
  /\ parse[1].result.value.trace_id = <<"b", "=", "c">>
  /\ parse[1].result.value.parent_id = Some(<<"p">>)

\* C12: parsing fails, and gives no header at all, whenever a segment of the text
\* has no "=", wherever the segment stands and also when it is empty.
C12_MissingEqualsFails ==
  parse # None =>
    ((\E i \in DOMAIN parse[1].segments : ~parse[1].segments[i].kv) =>
       parse[1].result = Err)

\* a text of well-formed segments followed by an empty one (a trailing ";") failed
C12_Witness ==
  /\ parse # None
  /\ Len(parse[1].segments) = 3
  /\ parse[1].segments[1] = KeyValue(StrRoot, <<"a">>)
  /\ parse[1].segments[2].kv
  /\ parse[1].segments[3] = Bare(<<>>)
  /\ parse[1].result = Err

\* C13: the sampling decision of a parsed header is Sampled, NotSampled or Requested
\* when the value of its Sampled segment is "1", "0" or "?", and Unknown for every
\* other value and when there is no Sampled segment.
C13_SamplingDecision ==
  parse # None =>
    LET segments == parse[1].segments
        result == parse[1].result
        sampled == KeyAt(segments, StrSampled)
        value == segments[CHOOSE i \in sampled : TRUE].value
    IN (result # Err /\ Cardinality(sampled) <= 1) =>
         result.value.sampling_decision =
           IF sampled = {} THEN "Unknown"
           ELSE IF value = <<"1">> THEN "Sampled"
           ELSE IF value = <<"0">> THEN "NotSampled"
           ELSE IF value = <<"?">> THEN "Requested"
           ELSE "Unknown"

\* a text with Sampled=? was parsed to a header with the decision Requested
C13_Witness ==
  /\ parse # None
  /\ KeyAt(parse[1].segments, StrSampled) # {}
  /\ \A i \in KeyAt(parse[1].segments, StrSampled) : parse[1].segments[i].value = <<"?">>
  /\ parse[1].result # Err
  /\ parse[1].result.value.sampling_decision = "Requested"

\* C14: in a parsed header a Self segment adds nothing (the text without it parses
\* to the same header), and every segment whose key is none of Root, Parent,
\* Sampled, Self is in the additional-data map under its key with its value.
C14_SelfIgnoredOthersKept ==
  parse # None =>
    LET segments == parse[1].segments
        result == parse[1].result
    IN (result # Err /\ \A key \in KnownKeys : Cardinality(KeyAt(segments, key)) <= 1) =>
         /\ KeyAt(segments, StrSelf) # {} /\ Len(segments) > 1 =>
              from_str(HeaderText(WithoutKey(segments, StrSelf))) = result
         /\ \A i \in DOMAIN segments :
              (segments[i].key \notin KnownKeys
               /\ Cardinality(KeyAt(segments, segments[i].key)) = 1) =>
                /\ result.value.additional_data # None
                /\ segments[i].key \in DOMAIN result.value.additional_data[1]
                /\ result.value.additional_data[1][segments[i].key] = segments[i].value

\* C15: for a header text of key=value segments with pairwise distinct keys, every
\* order of its segments parses to the same header.
C15_OrderInsignificant ==
  parse # None =>
    LET segments == parse[1].segments
    IN (AllKeyValue(segments)
        /\ \A i, j \in DOMAIN segments : i # j => segments[i].key # segments[j].key) =>
         \A other \in Orders(segments) : from_str(HeaderText(other)) = parse[1].result

\* a text of three segments with distinct keys, Root and Parent among them, was parsed
C15_Witness ==
  /\ parse # None
  /\ Len(parse[1].segments) = 3
  /\ AllKeyValue(parse[1].segments)
  /\ \A i, j \in DOMAIN parse[1].segments :
       i # j => parse[1].segments[i].key # parse[1].segments[j].key
  /\ KeyAt(parse[1].segments, StrRoot) # {}
  /\ KeyAt(parse[1].segments, StrParent) # {}
  /\ Cardinality(Orders(parse[1].segments)) = 6
  /\ parse[1].result # Err

(***************************************************************************)
(* Properties of the documents.                                            *)
(***************************************************************************)
\* the first n characters of a name, the whole name when it has no more than n
FirstChars(chars, n) == IF Len(chars) <= n THEN chars ELSE SubSeq(chars, 1, n)

\* C16: a document returned by Segment::begin or Subsegment::begin holds the given
\* name unchanged when the name has at most 200 characters, and exactly its first
\* 200 characters when it has more.
C16_NameKeptOrCutAt200 ==
  (document # None /\ document[1].outcome = "returned") =>
    document[1].doc[1].name = Utf8(FirstChars(document[1].given, MaxNameLen))

\* C17: for every name Segment::begin and Subsegment::begin return a document, and
\* its name is a prefix of the given name of at most 200 characters.
C17_NeverRejectsAName ==
  document # None =>
    /\ document[1].outcome = "returned"
    /\ \E n \in 0..MaxNameLen :
         document[1].doc[1].name = Utf8(FirstChars(document[1].given, n))

\* C18: a document driven by begin and end has in_progress = true and no end_time
\* until end is called, in_progress = false and an end_time once end was called, so
\* exactly one of the two holds in every state; a call of end after the first one
\* changes nothing of the document but end_time.
C18_EndedOrInProgress ==
  /\ []((document # None /\ document[1].outcome = "returned") =>
          LET doc == document[1].doc[1]
          IN /\ doc.in_progress # (doc.end_time # None)
             /\ document[1].ends = 0 => (doc.in_progress /\ doc.end_time = None)
             /\ document[1].ends > 0 => (~doc.in_progress /\ doc.end_time # None))
  /\ [][(document # None /\ document' # None /\ document[1].ends > 0
         /\ document'[1].ends = document[1].ends + 1) =>
          /\ document'[1].doc[1].end_time # None
          /\ [document'[1].doc[1] EXCEPT !.end_time = None] =
               [document[1].doc[1] EXCEPT !.end_time = None]]_vars

\* end was called twice on a document, the second call with another clock reading
C18_Witness ==
  /\ document # None
  /\ document[1].outcome = "returned"
  /\ document[1].ends = 2
  /\ ~document[1].doc[1].in_progress
  /\ document[1].doc[1].end_time = Some(Later)

\* the keys of the top-level object of a JSON text: the strings at depth one that
\* a colon follows
TopLevelKeys(json) ==
  LET Backslashes(j) ==
        LET others == {k \in 1..(j - 1) : json[k] # "\\"}
        IN IF others = {} THEN j - 1
           ELSE j - 1 - (CHOOSE k \in others : \A m \in others : m <= k)
      Quotes == {j \in DOMAIN json : json[j] = "\"" /\ Backslashes(j) % 2 = 0}
      InString(j) == Cardinality({q \in Quotes : q < j}) % 2 = 1
      Opening == {j \in DOMAIN json : json[j] \in {"{", "["} /\ ~InString(j)}
      Closing == {j \in DOMAIN json : json[j] \in {"}", "]"} /\ ~InString(j)}
      Depth(j) == Cardinality({o \in Opening : o < j}) - Cardinality({c \in Closing : c < j})
      Closer(q) == CHOOSE r \in Quotes : r > q /\ \A m \in Quotes : m > q => r <= m
  IN {SubSeq(json, q + 1, Closer(q) - 1) :
        q \in {q \in Quotes : /\ ~InString(q)
                              /\ Depth(q) = 1
                              /\ Closer(q) < Len(json)
                              /\ json[Closer(q) + 1] = ":"}}

\* C19: the JSON of a Segment has the keys trace_id, id, name and start_time, and
\* each other key exactly when its field is not at its default: end_time, parent_id
\* and aws when set, in_progress, fault, error and throttle when true.
C19_KeysOfSetFieldsOnly ==
  (document # None /\ document[1].outcome = "returned" /\ document[1].kind = "segment") =>
    LET doc == document[1].doc[1]
    IN TopLevelKeys(to_vec(doc)) =
         {KeyTraceId, KeyId, KeyName, KeyStartTime}
         \cup (IF doc.end_time # None THEN {KeyEndTime} ELSE {})
         \cup (IF doc.in_progress THEN {KeyInProgress} ELSE {})
         \cup (IF doc.parent_id # None THEN {KeyParentId} ELSE {})
         \cup (IF doc.fault THEN {KeyFault} ELSE {})
         \cup (IF doc.error THEN {KeyError} ELSE {})
         \cup (IF doc.throttle THEN {KeyThrottle} ELSE {})
         \cup (IF doc.aws # None THEN {KeyAws} ELSE {})

\* a finalized Segment with every other field at its default has exactly five keys
C19_Witness ==
  /\ document # None
  /\ document[1].outcome = "returned"
  /\ document[1].kind = "segment"
  /\ LET doc == document[1].doc[1]
     IN /\ doc.end_time # None /\ ~doc.in_progress /\ doc.parent_id = None
        /\ ~doc.fault /\ ~doc.error /\ ~doc.throttle /\ doc.aws = None
        /\ TopLevelKeys(to_vec(doc)) =
             {KeyTraceId, KeyId, KeyName, KeyStartTime, KeyEndTime}

(***************************************************************************)
(* Properties of the identifiers.                                          *)
(***************************************************************************)
LowerHexDigits ==
  {"0", "1", "2", "3", "4", "5", "6", "7", "8", "9", "a", "b", "c", "d", "e", "f"}

\* the text is the bytes in order, two lowercase hex digits for each
TwoDigitsPerByte(text, bytes) ==
  /\ Len(text) = 2 * Len(bytes)
  /\ \A i \in DOMAIN bytes :
       /\ text[2 * i - 1] \in LowerHexDigits
       /\ text[2 * i] \in LowerHexDigits
       /\ HexDigits[(bytes[i] \div 16) + 1] = text[2 * i - 1]
       /\ HexDigits[(bytes[i] % 16) + 1] = text[2 * i]

\* C20: a generated TraceId renders as "1-", 8 lowercase hex digits, "-", 24
\* lowercase hex digits, whatever its seconds and its 12 bytes; a generated
\* SegmentId renders as 16 lowercase hex digits, two for each of its 8 bytes.
C20_RenderedPatterns ==
  rendered # None =>
    LET text == rendered[1].text
    IN IF rendered[1].kind = "trace"
       THEN /\ Len(text) = 35
            /\ text[1] = "1" /\ text[2] = "-" /\ text[11] = "-"
            /\ \A i \in 3..10 : text[i] \in LowerHexDigits
            /\ TwoDigitsPerByte(SubSeq(text, 12, 35), rendered[1].bytes)
       ELSE Len(text) = 16 /\ TwoDigitsPerByte(text, rendered[1].bytes)

(***************************************************************************)
(* Properties of the transport, of scope release and of the rusoto         *)
(* dispatcher.                                                             *)
(***************************************************************************)
\* C24: a send for which the socket reported not-ready is logged by emit as a
\* failure, like an I/O error.
C24_NotReadyIsLogged ==
  datagram # None =>
    (datagram[1].io \in {"not_ready", "io_error"} => EmitLogs(datagram[1].result))

\* C25: once every scope handle of a thread has been released, in whatever
\* order, current() of that thread is what it was before the thread's first
\* scope was opened, which is None.
C25_AllReleasedRestoresFirst ==
  \A t \in Threads :
    (/\ \E h \in DOMAIN handles : handles[h].thread = t
     /\ \A h \in DOMAIN handles : handles[h].thread = t => ~handles[h].open)
    => current[t] = None

\* C27: every Context installed by begin_subsegment, and every document emitted
\* for such a scope, carries a trace_id whose text is not empty.
C27_TraceIdNotEmpty ==
  /\ \A h \in DOMAIN handles :
       (handles[h].open /\ handles[h].kind = "subsegment") =>
         DisplayTraceId(handles[h].context[1].trace_id) # <<>>
  /\ \A i \in DOMAIN sent :
       sent[i].doc.type = "subsegment" =>
         DisplayTraceId(sent[i].doc.trace_id[1]) # <<>>

\* the open scope that encloses the open scope h directly, 0 if there is none
Enclosing(h) ==
  LET outer == {g \in DOMAIN handles : g < h /\ handles[g].open}
  IN IF outer = {} THEN 0 ELSE CHOOSE g \in outer : \A k \in outer : k <= g

\* the outermost open scope, with at least one scope open
Outermost == CHOOSE g \in DOMAIN handles : handles[g].open /\ \A k \in 1..(g - 1) : ~handles[k].open

\* the open scope h continues the trace of the outermost open scope as the child
\* of the Context it saved, and so does its document
ChainedAt(h) ==
  LET hd == handles[h]
      ctx == hd.context[1]
  IN /\ ctx.trace_id = handles[Outermost].context[1].trace_id
     /\ ctx.parent_id = IF hd.prev = None THEN None ELSE Some(hd.prev[1].segment_id)
     /\ IsInnermost(h) => current[hd.thread] = hd.context
     /\ Enclosing(h) # 0 =>
          /\ hd.prev = handles[Enclosing(h)].context
          /\ hd.state[1].parent_id = Some(handles[Enclosing(h)].state[1].id)
          /\ hd.state[1].id = ctx.segment_id

\* C26 as stated: with scopes opened and closed in strict nesting on one thread,
\* the first by begin_segment, every open scope has the trace_id of the outermost
\* open segment and as parent_id the segment_id of the Context it saved, and the
\* documents form one chain.
C26_NestedChain ==
  \A h \in DOMAIN handles : handles[h].open => ChainedAt(h)

\* C26, amended: the same, for scopes opened by begin_subsegment inside the
\* first segment; a document emitted names the enclosing scope's document as its
\* parent.
C26_NestedSubsegmentsChain ==
  /\ \A h \in DOMAIN handles :
       (/\ handles[h].open
        /\ \A g \in DOMAIN handles :
             (handles[g].open /\ g # Outermost) => handles[g].kind = "subsegment")
       => ChainedAt(h)
  /\ \A i \in DOMAIN sent :
       (sent[i].doc.type = "subsegment" /\ Enclosing(sent[i].h) # 0) =>
         /\ sent[i].doc.parent_id = Some(handles[Enclosing(sent[i].h)].state[1].id)
         /\ sent[i].doc.trace_id = Some(handles[Enclosing(sent[i].h)].context[1].trace_id)

C26_Witness ==
  /\ Len(handles) = 3
  /\ \A h \in DOMAIN handles : handles[h].open
  /\ handles[1].kind = "segment" /\ handles[2].kind = "subsegment"
  /\ handles[3].kind = "subsegment"
  /\ handles[3].context[1].parent_id = Some(handles[2].context[1].segment_id)
  /\ handles[3].context[1].trace_id = handles[1].context[1].trace_id

\* C28: with strictly nested scopes, the step that releases a scope sends its
\* document while the thread's slot still holds the scope's own Context and
\* leaves the slot restored to the Context the scope saved; every scope opened
\* inside it has sent its document before, and no enclosing scope has sent yet.
C28_SentInsideOutBeforeRestore ==
  [][\A h \in DOMAIN handles :
       Releases(h) =>
         /\ Len(sent') = 1 /\ sent'[1].h = h
         /\ sent'[1].slot = handles[h].context
         /\ current'[handles[h].thread] = handles[h].prev
         /\ \A g \in DOMAIN handles :
              /\ g > h => (~handles[g].open /\ handles[g].sends = 1)
              /\ g < h /\ handles[g].open => (handles'[g].open /\ handles'[g].sends = 0)]_vars

C28_Witness ==
  /\ Len(handles) >= 2
  /\ handles[1].open /\ ~handles[2].open /\ handles[2].sends = 1
  /\ Len(sent) = 1 /\ sent[1].h = 2
  /\ sent[1].slot # current[1]
  /\ current[1] = handles[1].context

\* the handle h is held by a TracingRequest
IsRequest(h) == handles[h].request # None

\* the sampling decision of the header that the open handle h read, Unknown if
\* it read none that parses
SamplingRead(h) ==
  LET env == handles[h].drawn[1].env
  IN IF env = None THEN "Unknown"
     ELSE IF header(env[1]) = None THEN "Unknown"
     ELSE header(env[1])[1].sampling_decision

\* C22: a request dispatched through TracedRequests is traced only if the trace
\* is sampled: the request that joined a trace whose header says NotSampled
\* sends no subsegment when it is released.
C22_NotSampledNotTraced ==
  [][\A h \in DOMAIN handles :
       (Releases(h) /\ IsRequest(h) /\ SamplingRead(h) = "NotSampled")
         => handles'[h].sends = 0]_vars

\* C29: of two requests dispatched on one thread inside one open segment, the
\* second before the first was released, both subsegments have the segment's id
\* as parent_id, and once both futures are released, in either order, current()
\* is the segment's Context.
C29_ConcurrentRequestsAreSiblings ==
  (/\ Len(handles) = 3
   /\ handles[1].kind = "segment" /\ handles[1].open
   /\ IsRequest(2) /\ IsRequest(3))
  => /\ \A h \in {2, 3} :
          handles[h].open =>
            handles[h].context[1].parent_id = Some(handles[1].context[1].segment_id)
     /\ (~handles[2].open /\ ~handles[3].open) => current[1] = handles[1].context

\* C30: a dispatch opens one subsegment with no http block; a poll adds
\* http.response exactly when the wrapped future completed with a response and
\* leaves the subsegment as it was for an error and for not-ready; the release of
\* the future, whatever the last poll returned, sends the subsegment once,
\* finalized, and a released request changes no more.
C30_OneSubsegmentPerDispatch ==
  [][\A h \in DOMAIN handles' :
       IF h \notin DOMAIN handles
       THEN IsRequest(h)' =>
              /\ handles'[h].kind = "subsegment" /\ handles'[h].open
              /\ handles'[h].state # None /\ handles'[h].state[1].http = None
              /\ handles'[h].sends = 0
       ELSE IsRequest(h) =>
              IF ~handles[h].open THEN handles'[h] = handles[h]
              ELSE IF handles'[h].open
              THEN /\ handles'[h].sends = 0 /\ handles'[h].state # None
                   /\ IF handles'[h].request = Some("ready") /\ handles[h].request # Some("ready")
                      THEN /\ handles'[h].state[1].http # None
                           /\ handles'[h].state[1].http[1].response # None
                           /\ [handles'[h].state[1] EXCEPT !.http = None] = handles[h].state[1]
                      ELSE handles'[h].state = handles[h].state
              ELSE /\ handles'[h].sends = 1
                   /\ Len(sent') = 1 /\ sent'[1].h = h
                   /\ sent'[1].doc = end(handles[h].state[1], Now)
                   /\ Finalized(sent'[1].doc)
                   /\ (sent'[1].doc.http # None) <=> (handles[h].request = Some("ready"))]_vars

C30_Witness ==
  \E h \in DOMAIN handles :
    /\ IsRequest(h) /\ ~handles[h].open /\ handles[h].sends = 1
    /\ Len(sent) = 1 /\ sent[1].h = h
    /\ sent[1].doc.http # None
    /\ sent[1].doc.http[1].response[1].content_length = Some(12)
    /\ sent[1].doc.aws # None

\* C23: the client built by Client::default has the address written in
\* AWS_XRAY_DAEMON_ADDRESS when the variable is set and its value parses as a
\* socket address, and 127.0.0.1:2000 in every other case; the construction
\* fails only when the socket cannot be bound or connected, never because of
\* the setting.
C23_AddressFromSettingOrDefault ==
  client # None =>
    LET c == client[1]
        local == [ip |-> <<127, 0, 0, 1>>, port |-> 2000]
    IN /\ c.setting = None => c.addr = local
       /\ c.setting = Some(StrAddr) => c.addr = [ip |-> <<10, 0, 0, 5>>, port |-> 3000]
       /\ c.setting # None =>
            c.addr = IF ParseSocketAddr(c.setting[1]) = Err THEN local
                     ELSE ParseSocketAddr(c.setting[1]).value
       /\ c.setting \in {Some(StrHostName), Some(StrNoPort), Some(StrOctet256),
                         Some(StrPort65536), Some(<<>>)} => c.addr = local
       /\ c.outcome = "panicked" <=> c.io # "connected"

C23_Witness ==
  /\ client # None
  /\ client[1].setting = Some(StrHostName)
  /\ client[1].outcome = "constructed"
  /\ client[1].addr = DefaultAddr
  /\ client[1].result[1] # None

\* C21: when several threads send through one client at the same time, no send
\* fails because of the other thread's use of the socket.
C21_ConcurrentSendsComplete ==
  client # None => \A t \in Threads : client[1].pc[t] # "panicked"
====
